---- MODULE Spec2Model ----
(***************************************************************************)
(* Model of the local-file backend of childoftheuniverse/filesystem:       *)
(*   - the cancellable bridge (one worker goroutine per blocking OS call,  *)
(*     raced against ctx.Done() in a select),                              *)
(*   - ContextRespectingIoFile (Read/Write/Close/Tell/Seek/Skip),          *)
(*   - FileAdapter (OpenReader/OpenWriter/OpenAppender/ListEntries/Remove),*)
(*   - FileWatcher (NewFileWatcher, watchForChanges, Shutdown).            *)
(***************************************************************************)
EXTENDS Integers, Sequences, FiniteSets, TLC

\* ------------------------------------------------------------------ bounds
\* Number of calls one behaviour of the caller makes.
MaxCalls == 2
\* Longest byte sequence the scripted caller writes and reads back.
MaxLen == 2
\* Number of live filesystem mutations the environment makes under a watch.
MaxEnv == 2

\* ------------------------------------------------------------- file system
\* Bytes a file or a buffer may hold; 0 is the NUL byte, 9 fills fresh caller
\* buffers so that an untouched buffer is recognisable.
Byte == {0, 7, 9}

Root == "/"
Paths == {"/f", "/d", "/d/a", "/d/b", "/d/%", "/l"}
Parent(q) == IF q \in {"/d/a", "/d/b", "/d/%"} THEN "/d" ELSE Root
BaseName(q) == IF q = "/d/a" THEN "a" ELSE IF q = "/d/b" THEN "b"
               ELSE IF q = "/d/%" THEN "%" ELSE IF q = "/d" THEN "d"
               ELSE IF q = "/l" THEN "l" ELSE "f"

Absent == [kind |-> "absent", data |-> <<>>]
DirNode == [kind |-> "dir", data |-> <<>>]
FileNode(d) == [kind |-> "file", data |-> d]
\* A symbolic link; the links of the model point to /f.
LinkNode == [kind |-> "link", data |-> <<>>]
LinkTarget == "/f"
\* The path the OS reaches when it follows the link at q, if q is one.
Resolve(f, q) == IF f[q].kind = "link" THEN LinkTarget ELSE q

\* Byte sequences written by callers: non-empty, with and without NUL bytes.
DataSet == {<<7>>, <<0, 7>>}
\* Contents a file may hold before the program touches it.
OldData == {<<>>, <<9, 9, 9>>}

VARIABLES
    fs,        \* [Paths -> node]: the OS file system
    handles,   \* sequence of open file descriptions (*os.File)
    workers,   \* sequence of bridge worker goroutines, one per bridged call
    cur,       \* the caller: the call it is in and its position in it
    ctxDone,   \* whether the current call's ctx.Done() has fired
    h,         \* the handle the caller holds (index into handles, 0 = none)
    p,         \* the caller's buffer passed to Read
    pAtCall,   \* that buffer as it was when Read was called
    lastRead,  \* how the most recent Read ended: none, pending, cancelled, returned
    ret,       \* what the last call returned
    ncalls,    \* number of calls made
    script,    \* the scripted caller: its remaining calls and its inputs
    wb,        \* the caller's buffer passed to Write
    fw         \* the FileWatcher subsystem (a record, see below)

bvars == <<fs, handles, workers, cur, ctxDone, h, p, pAtCall, lastRead, ret, ncalls, wb>>
vars == <<fs, handles, workers, cur, ctxDone, h, p, pAtCall, lastRead, ret, ncalls, script, wb, fw>>

\* ------------------------------------------------------- OS call semantics
\* What the blocking calls of package os do to the file system and to an open
\* file description.  hd is an *os.File: [path, off, mode, append, closed].
NoHandle == [path |-> "/f", off |-> 0, mode |-> "r", append |-> FALSE, closed |-> TRUE]
NewHandle(path, mode, app) ==
    [path |-> path, off |-> 0, mode |-> mode, append |-> app, closed |-> FALSE]

Min(a, b) == IF a < b THEN a ELSE b
Zeros(n) == [i \in 1..n |-> 0]
Fill(n) == [i \in 1..n |-> 9]
Names(f, dir) == {BaseName(q) : q \in {q \in Paths : Parent(q) = dir /\ f[q].kind # "absent"}}

\* os.Open(path): read-only open; directories can be opened too.
osOpen(f, path) ==
    IF Parent(path) # Root /\ f[Parent(path)].kind = "file"
    THEN [err |-> "ENOTDIR", fs |-> f, hd |-> NoHandle]
    ELSE IF f[Resolve(f, path)].kind = "absent"
    THEN [err |-> "ENOENT", fs |-> f, hd |-> NoHandle]
    ELSE [err |-> "nil", fs |-> f, hd |-> NewHandle(Resolve(f, path), "r", FALSE)]

\* os.MkdirAll(dir, 0755)
osMkdirAll(f, dir) ==
    IF dir = Root \/ f[dir].kind = "dir" THEN [err |-> "nil", fs |-> f]
    ELSE IF f[dir].kind = "file" THEN [err |-> "ENOTDIR", fs |-> f]
    ELSE [err |-> "nil", fs |-> [f EXCEPT ![dir] = DirNode]]

\* os.OpenFile(path, flag, 0644) for the write-only flag sets the adapter uses.
osOpenFile(f, path, flag) ==
    IF Parent(path) # Root /\ f[Parent(path)].kind # "dir"
    THEN [err |-> "ENOENT", fs |-> f, hd |-> NoHandle]
    ELSE IF f[path].kind = "dir"
    THEN [err |-> "EISDIR", fs |-> f, hd |-> NoHandle]
    ELSE IF f[path].kind = "absent" /\ "O_CREATE" \notin flag
    THEN [err |-> "ENOENT", fs |-> f, hd |-> NoHandle]
    ELSE [err |-> "nil",
          fs |-> IF f[path].kind = "absent" \/ "O_TRUNC" \in flag
                 THEN [f EXCEPT ![path] = FileNode(<<>>)] ELSE f,
          hd |-> NewHandle(path, "w", "O_APPEND" \in flag)]

\* (*os.File).Read(buf) with len(buf) = n.  Data is the n-byte buffer after the
\* call: the bytes read, followed by the zero bytes make() put there.
osRead(hd, f, n) ==
    IF hd.closed THEN [n |-> 0, err |-> "ErrClosed", Data |-> Zeros(n), off |-> hd.off]
    ELSE IF hd.mode = "w" THEN [n |-> 0, err |-> "EBADF", Data |-> Zeros(n), off |-> hd.off]
    ELSE IF f[hd.path].kind # "file"
    THEN [n |-> 0, err |-> "EISDIR", Data |-> Zeros(n), off |-> hd.off]
    ELSE IF n = 0 THEN [n |-> 0, err |-> "nil", Data |-> <<>>, off |-> hd.off]
    ELSE LET data == f[hd.path].data
             k == Min(n, Len(data) - hd.off)
         IN  IF k <= 0
             THEN [n |-> 0, err |-> "EOF", Data |-> Zeros(n), off |-> hd.off]
             ELSE [n |-> k, err |-> "nil",
                   Data |-> SubSeq(data, hd.off + 1, hd.off + k) \o Zeros(n - k),
                   off |-> hd.off + k]

\* The file's bytes after b is written at position pos (a gap is zero-filled).
WriteAt(data, pos, b) ==
    LET head == IF pos <= Len(data) THEN SubSeq(data, 1, pos)
                ELSE data \o Zeros(pos - Len(data))
        tail == IF pos + Len(b) < Len(data)
                THEN SubSeq(data, pos + Len(b) + 1, Len(data)) ELSE <<>>
    IN  head \o b \o tail

\* (*os.File).Write(b)
osWrite(hd, f, b) ==
    IF hd.closed THEN [n |-> 0, err |-> "ErrClosed", fs |-> f, off |-> hd.off]
    ELSE IF hd.mode = "r" \/ f[hd.path].kind # "file"
    THEN [n |-> 0, err |-> "EBADF", fs |-> f, off |-> hd.off]
    ELSE LET data == f[hd.path].data
             pos == IF hd.append THEN Len(data) ELSE hd.off
         IN  [n |-> Len(b), err |-> "nil",
              fs |-> [f EXCEPT ![hd.path] = FileNode(WriteAt(data, pos, b))],
              off |-> pos + Len(b)]

\* (*os.File).Seek(offset, whence) for whence one of io.SeekStart, io.SeekCurrent,
\* io.SeekEnd.
Whence == {"SeekStart", "SeekCurrent", "SeekEnd"}
osSeek(hd, f, offset, whence) ==
    LET size == IF f[hd.path].kind = "file" THEN Len(f[hd.path].data) ELSE 0
        pos == IF whence = "SeekStart" THEN offset
               ELSE IF whence = "SeekCurrent" THEN hd.off + offset
               ELSE size + offset
    IN  IF hd.closed THEN [off |-> hd.off, ret |-> 0, err |-> "ErrClosed"]
        ELSE IF pos < 0 THEN [off |-> hd.off, ret |-> 0, err |-> "EINVAL"]
        ELSE [off |-> pos, ret |-> pos, err |-> "nil"]

\* (*os.File).Close()
osClose(hd) == IF hd.closed THEN "ErrClosed" ELSE "nil"

\* os.Open(dir) followed by Readdirnames(-1)
osReaddirnames(f, dir) ==
    IF f[dir].kind = "absent" THEN [err |-> "ENOENT", names |-> {}]
    ELSE IF f[dir].kind = "file" THEN [err |-> "ENOTDIR", names |-> {}]
    ELSE [err |-> "nil", names |-> Names(f, dir)]

\* os.Remove(path)
osRemove(f, path) ==
    IF f[path].kind = "absent" THEN [err |-> "ENOENT", fs |-> f]
    ELSE IF f[path].kind = "dir" /\ Names(f, path) # {}
    THEN [err |-> "ENOTEMPTY", fs |-> f]
    ELSE [err |-> "nil", fs |-> [f EXCEPT ![path] = Absent]]

\* ------------------------------------------------------------ the bridge
\* A worker goroutine: the operation, its position (stage), its arguments, the
\* OS call's result (res) and the channels made for the call, each of capacity 1.
NoRes == [n |-> 0, hd |-> 0, names |-> {}, Data |-> <<>>, err |-> "nil"]
Worker(op, hd, path, n, b, flag) ==
    [op |-> op, stage |-> "os", hd |-> hd, path |-> path, n |-> n, b |-> b,
     flag |-> flag, res |-> NoRes, rchan |-> <<>>, errch |-> <<>>, lench |-> <<>>]
\* A worker that has returned and whose channels nobody will read any more.
Finished == [Worker("none", 0, "/f", 0, <<>>, {}) EXCEPT !.stage = "done"]
ChanCap == 1

Idle == [op |-> "none", id |-> 0, pc |-> "idle", err |-> "nil"]
NoRet == [op |-> "none", state |-> "returned", n |-> 0, hd |-> 0, names |-> {}, err |-> "nil",
          arg |-> 0, whence |-> "SeekStart", before |-> 0, after |-> 0]
Pending(op) == [NoRet EXCEPT !.op = op, !.state = "pending"]
Returned(op, n, hd, names, err) ==
    [NoRet EXCEPT !.op = op, !.n = n, !.hd = hd, !.names = names, !.err = err]

\* The caller: free (any call, up to MaxCalls of them) or scripted (the calls of
\* script.steps in order, each only after the previous one returned no error).
MayCall(op) ==
    /\ cur.pc = "idle"
    /\ IF script.mode = "free" THEN ncalls < MaxCalls
       ELSE /\ script.steps # <<>>
            /\ Head(script.steps) = op
            /\ ret.err = "nil"
WriteArgs == IF script.mode = "free" THEN DataSet ELSE {script.data}
ReadArgs == IF script.mode = "free" THEN {1, 2} ELSE {Len(script.data)}

\* Workers whose call has returned and which are done hold nothing of interest.
Collect(ws) ==
    [i \in 1..Len(ws) |-> IF ws[i].stage = "done" THEN Finished ELSE ws[i]]

\* `go worker(...)` and entering the select: common to every bridged method.
Spawn(op, wk) ==
    /\ MayCall(op)
    /\ workers' = Append(Collect(workers), wk)
    /\ cur' = [Idle EXCEPT !.op = op, !.id = Len(workers) + 1, !.pc = "select"]
    /\ ctxDone' = FALSE
    /\ ncalls' = ncalls + 1
    /\ ret' = Pending(op)
    /\ script' = IF script.mode = "free" THEN script
                 ELSE [script EXCEPT !.steps = Tail(@)]

\* `case <-ctx.Done(): return zero, ctx.Err()`: common to every bridged method.
CtxBranch(op) ==
    /\ cur.op = op /\ cur.pc = "select"
    /\ ctxDone
    /\ cur' = Idle
    /\ ret' = Returned(op, 0, 0, {}, "ctx")

\* The caller's context is cancelled or its deadline passes.
CtxFire ==
    /\ cur.pc # "idle" /\ ~ctxDone
    /\ script.mode = "free"
    /\ ctxDone' = TRUE
    /\ UNCHANGED <<fs, handles, workers, cur, h, p, pAtCall, lastRead, ret, ncalls, script, wb, fw>>

\* ------------------------------------------------- ContextRespectingIoFile
\* asyncRead reading straight into the caller's buffer instead of a private one.
asyncRead_shared(i) ==
    LET wk == workers[i] IN
    /\ wk.op = "Read"
    /\ \/ /\ wk.stage = "os"
          /\ LET r == osRead(handles[wk.hd], fs, wk.n) IN
              /\ handles' = [handles EXCEPT ![wk.hd].off = r.off]
              /\ p' = IF Len(p) = wk.n THEN r.Data ELSE p
              /\ workers' = [workers EXCEPT ![i].stage = "send",
                    ![i].res = [NoRes EXCEPT !.n = r.n, !.Data = r.Data, !.err = r.err]]
       \/ /\ wk.stage = "send"
          /\ Len(wk.rchan) < ChanCap
          /\ workers' = [workers EXCEPT ![i].stage = "done", ![i].rchan = Append(@, wk.res)]
          /\ UNCHANGED <<handles, p>>
    /\ UNCHANGED <<fs, cur, ctxDone, h, pAtCall, lastRead, ret, ncalls, script, wb, fw>>

\* asyncRead: read into a private buffer, then send the result.
asyncRead(i) ==
    LET wk == workers[i] IN
    /\ wk.op = "Read"
    /\ \/ /\ wk.stage = "os"
          /\ LET r == osRead(handles[wk.hd], fs, wk.n) IN
              /\ handles' = [handles EXCEPT ![wk.hd].off = r.off]
              /\ workers' = [workers EXCEPT ![i].stage = "send",
                    ![i].res = [NoRes EXCEPT !.n = r.n, !.Data = r.Data, !.err = r.err]]
       \/ /\ wk.stage = "send"
          /\ Len(wk.rchan) < ChanCap
          /\ workers' = [workers EXCEPT ![i].stage = "done", ![i].rchan = Append(@, wk.res)]
          /\ UNCHANGED handles
    /\ UNCHANGED <<fs, cur, ctxDone, h, p, pAtCall, lastRead, ret, ncalls, script, wb, fw>>

\* Read, up to the select.
ReadCall ==
    /\ h # 0
    /\ \E n \in ReadArgs :
        /\ Spawn("Read", Worker("Read", h, "/f", n, <<>>, {}))
        /\ p' = Fill(n)
        /\ pAtCall' = Fill(n)
    /\ lastRead' = "pending"
    /\ UNCHANGED <<fs, handles, h, wb, fw>>

\* Read, select branch ctx.Done().
ReadCancelled ==
    /\ CtxBranch("Read")
    /\ lastRead' = "cancelled"
    /\ UNCHANGED <<fs, handles, workers, ctxDone, h, p, pAtCall, ncalls, script, wb, fw>>

\* Read's rchan branch without the copy into the caller's buffer.
ReadResult_nocopy ==
    /\ cur.op = "Read" /\ cur.pc = "select"
    /\ workers[cur.id].rchan # <<>>
    /\ LET result == Head(workers[cur.id].rchan) IN
        ret' = Returned("Read", result.n, 0, {}, result.err)
    /\ workers' = [workers EXCEPT ![cur.id].rchan = Tail(@)]
    /\ cur' = Idle
    /\ lastRead' = "returned"
    /\ ctxDone' = FALSE
    /\ UNCHANGED <<fs, handles, h, p, pAtCall, ncalls, script, wb, fw>>

\* Read, select branch rchan.
ReadResult ==
    /\ cur.op = "Read" /\ cur.pc = "select"
    /\ workers[cur.id].rchan # <<>>
    /\ LET result == Head(workers[cur.id].rchan) IN
        /\ p' = IF result.err = "nil" THEN result.Data ELSE p
        /\ ret' = Returned("Read", result.n, 0, {}, result.err)
    /\ workers' = [workers EXCEPT ![cur.id].rchan = Tail(@)]
    /\ cur' = Idle
    /\ lastRead' = "returned"
    /\ ctxDone' = FALSE
    /\ UNCHANGED <<fs, handles, h, pAtCall, ncalls, script, wb, fw>>

\* asyncWrite sending the error before the length.
asyncWrite_errFirst(i) ==
    LET wk == workers[i] IN
    /\ wk.op = "Write"
    /\ \/ /\ wk.stage = "os"
          /\ LET r == osWrite(handles[wk.hd], fs, wk.b) IN
              /\ fs' = r.fs
              /\ handles' = [handles EXCEPT ![wk.hd].off = r.off]
              /\ workers' = [workers EXCEPT ![i].stage = "send",
                    ![i].res = [NoRes EXCEPT !.n = r.n, !.Data = wk.b, !.err = r.err]]
       \/ /\ wk.stage = "send"
          /\ Len(wk.errch) < ChanCap
          /\ workers' = [workers EXCEPT ![i].stage = "send2", ![i].errch = Append(@, wk.res.err)]
          /\ UNCHANGED <<fs, handles>>
       \/ /\ wk.stage = "send2"
          /\ Len(wk.lench) < ChanCap
          /\ workers' = [workers EXCEPT ![i].stage = "done", ![i].lench = Append(@, wk.res.n)]
          /\ UNCHANGED <<fs, handles>>
    /\ UNCHANGED <<cur, ctxDone, h, p, pAtCall, lastRead, ret, ncalls, script, wb, fw>>

\* asyncWrite handed the caller's own buffer instead of the copy nb.
asyncWrite_shared(i) ==
    LET wk == workers[i] IN
    /\ wk.op = "Write"
    /\ \/ /\ wk.stage = "os"
          /\ LET r == osWrite(handles[wk.hd], fs, wb) IN
              /\ fs' = r.fs
              /\ handles' = [handles EXCEPT ![wk.hd].off = r.off]
              /\ workers' = [workers EXCEPT ![i].stage = "send",
                    ![i].res = [NoRes EXCEPT !.n = r.n, !.Data = wb, !.err = r.err]]
       \/ /\ wk.stage = "send"
          /\ Len(wk.lench) < ChanCap
          /\ workers' = [workers EXCEPT ![i].stage = "send2", ![i].lench = Append(@, wk.res.n)]
          /\ UNCHANGED <<fs, handles>>
       \/ /\ wk.stage = "send2"
          /\ Len(wk.errch) < ChanCap
          /\ workers' = [workers EXCEPT ![i].stage = "done", ![i].errch = Append(@, wk.res.err)]
          /\ UNCHANGED <<fs, handles>>
    /\ UNCHANGED <<cur, ctxDone, h, p, pAtCall, lastRead, ret, ncalls, script, wb, fw>>

\* asyncWrite: write the bytes of nb (res.Data records what the OS was handed),
\* then send the length, then send the error.
asyncWrite(i) ==
    LET wk == workers[i] IN
    /\ wk.op = "Write"
    /\ \/ /\ wk.stage = "os"
          /\ LET r == osWrite(handles[wk.hd], fs, wk.b) IN
              /\ fs' = r.fs
              /\ handles' = [handles EXCEPT ![wk.hd].off = r.off]
              /\ workers' = [workers EXCEPT ![i].stage = "send",
                    ![i].res = [NoRes EXCEPT !.n = r.n, !.Data = wk.b, !.err = r.err]]
       \/ /\ wk.stage = "send"
          /\ Len(wk.lench) < ChanCap
          /\ workers' = [workers EXCEPT ![i].stage = "send2", ![i].lench = Append(@, wk.res.n)]
          /\ UNCHANGED <<fs, handles>>
       \/ /\ wk.stage = "send2"
          /\ Len(wk.errch) < ChanCap
          /\ workers' = [workers EXCEPT ![i].stage = "done", ![i].errch = Append(@, wk.res.err)]
          /\ UNCHANGED <<fs, handles>>
    /\ UNCHANGED <<cur, ctxDone, h, p, pAtCall, lastRead, ret, ncalls, script, wb, fw>>

\* Write, up to the select: the caller's bytes are copied into nb first.
WriteCall ==
    /\ h # 0
    /\ \E b \in WriteArgs :
        LET nb == [i \in 1..Len(b) |-> b[i]] IN
        /\ Spawn("Write", Worker("Write", h, "/f", 0, nb, {}))
        /\ wb' = b
    /\ UNCHANGED <<fs, handles, h, p, pAtCall, lastRead, fw>>

\* Write, select branch ctx.Done().
WriteCancelled ==
    /\ CtxBranch("Write")
    /\ UNCHANGED <<fs, handles, workers, ctxDone, h, p, pAtCall, lastRead, ncalls, script, wb, fw>>

\* Write, select branch errch: the error is taken, the length is still to come.
WriteResult ==
    /\ cur.op = "Write" /\ cur.pc = "select"
    /\ workers[cur.id].errch # <<>>
    /\ cur' = [cur EXCEPT !.pc = "recvLen", !.err = Head(workers[cur.id].errch)]
    /\ workers' = [workers EXCEPT ![cur.id].errch = Tail(@)]
    /\ UNCHANGED <<fs, handles, ctxDone, h, p, pAtCall, lastRead, ret, ncalls, script, wb, fw>>

\* Write, `length = <-lench` and the return.
WriteRecvLen ==
    /\ cur.op = "Write" /\ cur.pc = "recvLen"
    /\ workers[cur.id].lench # <<>>
    /\ ret' = Returned("Write", Head(workers[cur.id].lench), 0, {}, cur.err)
    /\ workers' = [workers EXCEPT ![cur.id].lench = Tail(@)]
    /\ cur' = Idle
    /\ ctxDone' = FALSE
    /\ UNCHANGED <<fs, handles, h, p, pAtCall, lastRead, ncalls, script, wb, fw>>

\* After Write has returned the caller reuses its buffer: it overwrites b.
Scribble ==
    /\ cur.pc = "idle" /\ ret.op = "Write" /\ ret.state = "returned"
    /\ script.mode = "free"
    /\ wb # Fill(Len(wb))
    /\ wb' = Fill(Len(wb))
    /\ UNCHANGED <<fs, handles, workers, cur, ctxDone, h, p, pAtCall, lastRead, ret, ncalls,
                   script, fw>>

\* asyncClose sending the error a second time on the same channel.
asyncClose_twice(i) ==
    LET wk == workers[i] IN
    /\ wk.op = "Close"
    /\ \/ /\ wk.stage = "os"
          /\ handles' = [handles EXCEPT ![wk.hd].closed = TRUE]
          /\ workers' = [workers EXCEPT ![i].stage = "send",
                ![i].res = [NoRes EXCEPT !.err = osClose(handles[wk.hd])]]
       \/ /\ wk.stage = "send"
          /\ Len(wk.errch) < ChanCap
          /\ workers' = [workers EXCEPT ![i].stage = "send2", ![i].errch = Append(@, wk.res.err)]
          /\ UNCHANGED handles
       \/ /\ wk.stage = "send2"
          /\ Len(wk.errch) < ChanCap
          /\ workers' = [workers EXCEPT ![i].stage = "done", ![i].errch = Append(@, wk.res.err)]
          /\ UNCHANGED handles
    /\ UNCHANGED <<fs, cur, ctxDone, h, p, pAtCall, lastRead, ret, ncalls, script, wb, fw>>

\* asyncClose: close, then send the error.
asyncClose(i) ==
    LET wk == workers[i] IN
    /\ wk.op = "Close"
    /\ \/ /\ wk.stage = "os"
          /\ handles' = [handles EXCEPT ![wk.hd].closed = TRUE]
          /\ workers' = [workers EXCEPT ![i].stage = "send",
                ![i].res = [NoRes EXCEPT !.err = osClose(handles[wk.hd])]]
       \/ /\ wk.stage = "send"
          /\ Len(wk.errch) < ChanCap
          /\ workers' = [workers EXCEPT ![i].stage = "done", ![i].errch = Append(@, wk.res.err)]
          /\ UNCHANGED handles
    /\ UNCHANGED <<fs, cur, ctxDone, h, p, pAtCall, lastRead, ret, ncalls, script, wb, fw>>

\* Close, up to the select.  The caller gives the handle up with this call.
CloseCall ==
    /\ h # 0
    /\ Spawn("Close", Worker("Close", h, "/f", 0, <<>>, {}))
    /\ h' = 0
    /\ UNCHANGED <<fs, handles, p, pAtCall, lastRead, wb, fw>>

\* Close, select branch ctx.Done().
CloseCancelled ==
    /\ CtxBranch("Close")
    /\ UNCHANGED <<fs, handles, workers, ctxDone, h, p, pAtCall, lastRead, ncalls, script, wb, fw>>

\* Close, select branch errch.
CloseResult ==
    /\ cur.op = "Close" /\ cur.pc = "select"
    /\ workers[cur.id].errch # <<>>
    /\ ret' = Returned("Close", 0, 0, {}, Head(workers[cur.id].errch))
    /\ workers' = [workers EXCEPT ![cur.id].errch = Tail(@)]
    /\ cur' = Idle
    /\ ctxDone' = FALSE
    /\ UNCHANGED <<fs, handles, h, p, pAtCall, lastRead, ncalls, script, wb, fw>>

\* A direct (unbridged) call on the handle: it returns at once.  ret records
\* the arguments and the handle's offset before and after the call.
Direct(op, offset, whence, r) ==
    /\ MayCall(op)
    /\ h # 0
    /\ handles' = [handles EXCEPT ![h].off = r.off]
    /\ ret' = [op |-> op, state |-> "returned", n |-> r.ret, hd |-> 0, names |-> {},
               err |-> r.err, arg |-> offset, whence |-> whence,
               before |-> handles[h].off, after |-> r.off]
    /\ ncalls' = ncalls + 1
    /\ workers' = Collect(workers)
    /\ UNCHANGED <<fs, cur, ctxDone, h, p, pAtCall, lastRead, script, wb, fw>>

\* Tell: f.actualFile.Seek(0, io.SeekCurrent)
Tell == Direct("Tell", 0, "SeekCurrent", osSeek(handles[h], fs, 0, "SeekCurrent"))

\* A Seek that honours its whence argument.
SeekTo_whence(hd, offset, whence) == osSeek(hd, fs, offset, whence)

\* Seek(ctx, offset, whence): f.actualFile.Seek(offset, io.SeekStart)
SeekTo(hd, offset, whence) == osSeek(hd, fs, offset, "SeekStart")
Offsets == {0, 2}
Seek ==
    \E offset \in Offsets, whence \in Whence :
        Direct("Seek", offset, whence, SeekTo(handles[h], offset, whence))

\* Skip(ctx, n): f.actualFile.Seek(n, io.SeekCurrent), the new offset dropped
Skip ==
    \E n \in {1} :
        Direct("Skip", n, "SeekCurrent",
               [osSeek(handles[h], fs, n, "SeekCurrent") EXCEPT !.ret = 0])

\* ------------------------------------------------------------ FileAdapter
\* The flags OpenWriter and OpenAppender hand to asyncOpenWrite.
OpenWriterFlag == {"O_WRONLY", "O_CREATE", "O_TRUNC"}
\* The flags a true append-mode open would use.
OpenAppenderFlag_append == {"O_WRONLY", "O_CREATE", "O_APPEND"}
OpenAppenderFlag == {"O_WRONLY", "O_CREATE", "O_TRUNC"}

\* asyncOpenRead sending its (nil) handle on rchan also when os.Open failed.
asyncOpenRead_always(i) ==
    LET wk == workers[i] IN
    /\ wk.op = "OpenReader"
    /\ \/ /\ wk.stage = "os"
          /\ LET r == osOpen(fs, wk.path) IN
              /\ handles' = IF r.err = "nil" THEN Append(handles, r.hd) ELSE handles
              /\ workers' = [workers EXCEPT ![i].stage = "send",
                    ![i].res = [NoRes EXCEPT !.err = r.err,
                        !.hd = IF r.err = "nil" THEN Len(handles) + 1 ELSE 0]]
       \/ /\ wk.stage = "send"
          /\ Len(wk.rchan) < ChanCap
          /\ workers' = [workers EXCEPT ![i].stage = "done", ![i].rchan = Append(@, wk.res)]
          /\ UNCHANGED handles
    /\ UNCHANGED <<fs, cur, ctxDone, h, p, pAtCall, lastRead, ret, ncalls, script, wb, fw>>

\* asyncOpenRead: os.Open, then the error on errchan or the handle on rchan.
asyncOpenRead(i) ==
    LET wk == workers[i] IN
    /\ wk.op = "OpenReader"
    /\ \/ /\ wk.stage = "os"
          /\ LET r == osOpen(fs, wk.path) IN
              /\ handles' = IF r.err = "nil" THEN Append(handles, r.hd) ELSE handles
              /\ workers' = [workers EXCEPT ![i].stage = "send",
                    ![i].res = [NoRes EXCEPT !.err = r.err,
                        !.hd = IF r.err = "nil" THEN Len(handles) + 1 ELSE 0]]
       \/ /\ wk.stage = "send"
          /\ IF wk.res.err # "nil"
             THEN /\ Len(wk.errch) < ChanCap
                  /\ workers' = [workers EXCEPT ![i].stage = "done",
                                                ![i].errch = Append(@, wk.res.err)]
             ELSE /\ Len(wk.rchan) < ChanCap
                  /\ workers' = [workers EXCEPT ![i].stage = "done",
                                                ![i].rchan = Append(@, wk.res)]
          /\ UNCHANGED handles
    /\ UNCHANGED <<fs, cur, ctxDone, h, p, pAtCall, lastRead, ret, ncalls, script, wb, fw>>

\* asyncOpenWrite: os.MkdirAll of the parent, os.OpenFile, then the error on
\* errchan or the handle on rchan.
asyncOpenWrite(i) ==
    LET wk == workers[i] IN
    /\ wk.op \in {"OpenWriter", "OpenAppender"}
    /\ \/ /\ wk.stage = "os"
          /\ LET m == osMkdirAll(fs, Parent(wk.path)) IN
              /\ fs' = m.fs
              /\ workers' = IF m.err # "nil"
                            THEN [workers EXCEPT ![i].stage = "send",
                                                 ![i].res = [NoRes EXCEPT !.err = m.err]]
                            ELSE [workers EXCEPT ![i].stage = "os2"]
              /\ UNCHANGED handles
       \/ /\ wk.stage = "os2"
          /\ LET r == osOpenFile(fs, wk.path, wk.flag) IN
              /\ fs' = r.fs
              /\ handles' = IF r.err = "nil" THEN Append(handles, r.hd) ELSE handles
              /\ workers' = [workers EXCEPT ![i].stage = "send",
                    ![i].res = [NoRes EXCEPT !.err = r.err,
                        !.hd = IF r.err = "nil" THEN Len(handles) + 1 ELSE 0]]
       \/ /\ wk.stage = "send"
          /\ IF wk.res.err # "nil"
             THEN /\ Len(wk.errch) < ChanCap
                  /\ workers' = [workers EXCEPT ![i].stage = "done",
                                                ![i].errch = Append(@, wk.res.err)]
             ELSE /\ Len(wk.rchan) < ChanCap
                  /\ workers' = [workers EXCEPT ![i].stage = "done",
                                                ![i].rchan = Append(@, wk.res)]
          /\ UNCHANGED <<fs, handles>>
    /\ UNCHANGED <<cur, ctxDone, h, p, pAtCall, lastRead, ret, ncalls, script, wb, fw>>

\* asnycListEntries: os.Open and Readdirnames, then the error on errch or the
\* names on rch.
asnycListEntries(i) ==
    LET wk == workers[i] IN
    /\ wk.op = "ListEntries"
    /\ \/ /\ wk.stage = "os"
          /\ LET r == osReaddirnames(fs, wk.path) IN
              workers' = [workers EXCEPT ![i].stage = "send",
                    ![i].res = [NoRes EXCEPT !.err = r.err, !.names = r.names]]
       \/ /\ wk.stage = "send"
          /\ IF wk.res.err # "nil"
             THEN /\ Len(wk.errch) < ChanCap
                  /\ workers' = [workers EXCEPT ![i].stage = "done",
                                                ![i].errch = Append(@, wk.res.err)]
             ELSE /\ Len(wk.rchan) < ChanCap
                  /\ workers' = [workers EXCEPT ![i].stage = "done",
                                                ![i].rchan = Append(@, wk.res)]
    /\ UNCHANGED <<fs, handles, cur, ctxDone, h, p, pAtCall, lastRead, ret, ncalls, script, wb, fw>>

\* asyncRemove: os.Remove, then the error on errch.
asyncRemove(i) ==
    LET wk == workers[i] IN
    /\ wk.op = "Remove"
    /\ \/ /\ wk.stage = "os"
          /\ LET r == osRemove(fs, wk.path) IN
              /\ fs' = r.fs
              /\ workers' = [workers EXCEPT ![i].stage = "send",
                                            ![i].res = [NoRes EXCEPT !.err = r.err]]
       \/ /\ wk.stage = "send"
          /\ Len(wk.errch) < ChanCap
          /\ workers' = [workers EXCEPT ![i].stage = "done", ![i].errch = Append(@, wk.res.err)]
          /\ UNCHANGED fs
    /\ UNCHANGED <<handles, cur, ctxDone, h, p, pAtCall, lastRead, ret, ncalls, script, wb, fw>>

\* A Remove whose OS call has not run yet.  The caller opens no file while one
\* is pending, so that no open file is ever unlinked under its handle.
Removing == \E i \in 1..Len(workers) : workers[i].op = "Remove" /\ workers[i].stage = "os"

\* `case err = <-errchan: return`: the error branch of the opens and of ListEntries.
ErrBranch(op) ==
    /\ cur.op = op /\ cur.pc = "select"
    /\ workers[cur.id].errch # <<>>
    /\ ret' = Returned(op, 0, 0, {}, Head(workers[cur.id].errch))
    /\ workers' = [workers EXCEPT ![cur.id].errch = Tail(@)]
    /\ cur' = Idle
    /\ ctxDone' = FALSE
    /\ UNCHANGED <<fs, handles, h, p, pAtCall, lastRead, ncalls, script, wb, fw>>

\* `case rc = <-rchan: return`: the handle branch of the opens.
HandleBranch(op) ==
    /\ cur.op = op /\ cur.pc = "select"
    /\ workers[cur.id].rchan # <<>>
    /\ ret' = Returned(op, 0, Head(workers[cur.id].rchan).hd, {}, "nil")
    /\ h' = Head(workers[cur.id].rchan).hd
    /\ workers' = [workers EXCEPT ![cur.id].rchan = Tail(@)]
    /\ cur' = Idle
    /\ ctxDone' = FALSE
    /\ UNCHANGED <<fs, handles, p, pAtCall, lastRead, ncalls, script, wb, fw>>

\* OpenReader, up to the select, and its three select branches.
OpenReaderCall ==
    /\ ~Removing
    /\ Spawn("OpenReader", Worker("OpenReader", 0, script.path, 0, <<>>, {}))
    /\ UNCHANGED <<fs, handles, h, p, pAtCall, lastRead, wb, fw>>
OpenReaderCancelled ==
    /\ CtxBranch("OpenReader")
    /\ UNCHANGED <<fs, handles, workers, ctxDone, h, p, pAtCall, lastRead, ncalls, script, wb, fw>>
OpenReaderErr == ErrBranch("OpenReader")
OpenReaderResult == HandleBranch("OpenReader")

\* OpenWriter, up to the select, and its three select branches.
OpenWriterCall ==
    /\ ~Removing
    /\ Spawn("OpenWriter", Worker("OpenWriter", 0, script.path, 0, <<>>, OpenWriterFlag))
    /\ UNCHANGED <<fs, handles, h, p, pAtCall, lastRead, wb, fw>>
OpenWriterCancelled ==
    /\ CtxBranch("OpenWriter")
    /\ UNCHANGED <<fs, handles, workers, ctxDone, h, p, pAtCall, lastRead, ncalls, script, wb, fw>>
OpenWriterErr == ErrBranch("OpenWriter")
OpenWriterResult == HandleBranch("OpenWriter")

\* OpenAppender, up to the select, and its three select branches.
OpenAppenderCall ==
    /\ ~Removing
    /\ Spawn("OpenAppender", Worker("OpenAppender", 0, script.path, 0, <<>>, OpenAppenderFlag))
    /\ UNCHANGED <<fs, handles, h, p, pAtCall, lastRead, wb, fw>>
OpenAppenderCancelled ==
    /\ CtxBranch("OpenAppender")
    /\ UNCHANGED <<fs, handles, workers, ctxDone, h, p, pAtCall, lastRead, ncalls, script, wb, fw>>
OpenAppenderErr == ErrBranch("OpenAppender")
OpenAppenderResult == HandleBranch("OpenAppender")

\* ListEntries, up to the select, and its three select branches.
ListEntriesCall ==
    /\ Spawn("ListEntries", Worker("ListEntries", 0, "/d", 0, <<>>, {}))
    /\ UNCHANGED <<fs, handles, h, p, pAtCall, lastRead, wb, fw>>
ListEntriesCancelled ==
    /\ CtxBranch("ListEntries")
    /\ UNCHANGED <<fs, handles, workers, ctxDone, h, p, pAtCall, lastRead, ncalls, script, wb, fw>>
ListEntriesErr == ErrBranch("ListEntries")
ListEntriesResult ==
    /\ cur.op = "ListEntries" /\ cur.pc = "select"
    /\ workers[cur.id].rchan # <<>>
    /\ ret' = Returned("ListEntries", 0, 0, Head(workers[cur.id].rchan).names, "nil")
    /\ workers' = [workers EXCEPT ![cur.id].rchan = Tail(@)]
    /\ cur' = Idle
    /\ ctxDone' = FALSE
    /\ UNCHANGED <<fs, handles, h, p, pAtCall, lastRead, ncalls, script, wb, fw>>

\* Remove, up to the select, and its two select branches.  The caller removes
\* only a path on which it has no file open and no call still running.
RemoveCall ==
    /\ \A i \in 1..Len(handles) : handles[i].closed
    /\ \A i \in 1..Len(workers) : workers[i].stage = "done"
    /\ Spawn("Remove", Worker("Remove", 0, script.path, 0, <<>>, {}))
    /\ UNCHANGED <<fs, handles, h, p, pAtCall, lastRead, wb, fw>>
RemoveCancelled ==
    /\ CtxBranch("Remove")
    /\ UNCHANGED <<fs, handles, workers, ctxDone, h, p, pAtCall, lastRead, ncalls, script, wb, fw>>
RemoveResult ==
    /\ cur.op = "Remove" /\ cur.pc = "select"
    /\ workers[cur.id].errch # <<>>
    /\ ret' = Returned("Remove", 0, 0, {}, Head(workers[cur.id].errch))
    /\ workers' = [workers EXCEPT ![cur.id].errch = Tail(@)]
    /\ cur' = Idle
    /\ ctxDone' = FALSE
    /\ UNCHANGED <<fs, handles, h, p, pAtCall, lastRead, ncalls, script, wb, fw>>

\* ------------------------------------------------ bridge specifications
\* File systems the program may find: the target absent or holding old bytes,
\* its parent directory absent, present, or (for /d) a regular file.
InitFS(path) ==
    LET none == [q \in Paths |-> Absent] IN
    IF path = "/f"
    THEN {none} \cup {[none EXCEPT !["/f"] = FileNode(d)] : d \in OldData}
    ELSE {none, [none EXCEPT !["/d"] = FileNode(<<>>)], [none EXCEPT !["/d"] = DirNode]}
         \cup {[none EXCEPT !["/d"] = DirNode, ![path] = FileNode(d)] : d \in OldData}

\* The watcher is not running in the bridge specifications.
NoWatcher == [pc |-> "off"]

BridgeInit ==
    /\ workers = <<>>
    /\ cur = Idle
    /\ ctxDone = FALSE
    /\ p = <<>>
    /\ pAtCall = <<>>
    /\ lastRead = "none"
    /\ ret = NoRet
    /\ ncalls = 0
    /\ wb = <<>>
    /\ fw = NoWatcher

\* The caller starts with no handle, or with a ContextRespectingIoFile that
\* NewContextRespectingIoFile wrapped around a file already open on the target.
InitHandles(f, path) ==
    {<<>>} \cup IF f[path].kind = "file"
                THEN {<<NewHandle(path, "r", FALSE)>>, <<NewHandle(path, "w", FALSE)>>}
                ELSE {}

Init ==
    /\ BridgeInit
    /\ \E path \in {"/f", "/d/a"} :
        /\ script = [mode |-> "free", path |-> path, data |-> <<>>, steps |-> <<>>,
                     open |-> "none", fs0 |-> [q \in Paths |-> Absent]]
        /\ fs \in InitFS(path)
        /\ handles \in InitHandles(fs, path)
    /\ h = Len(handles)

WorkerStep ==
    \E i \in 1..Len(workers) :
        \/ asyncRead(i)
        \/ asyncWrite(i)
        \/ asyncClose(i)
        \/ asyncOpenRead(i)
        \/ asyncOpenWrite(i)
        \/ asnycListEntries(i)
        \/ asyncRemove(i)

Next ==
    \/ CtxFire
    \/ WorkerStep
    \/ ReadCall \/ ReadCancelled \/ ReadResult
    \/ WriteCall \/ WriteCancelled \/ WriteResult \/ WriteRecvLen \/ Scribble
    \/ CloseCall \/ CloseCancelled \/ CloseResult
    \/ Tell \/ Seek \/ Skip
    \/ OpenReaderCall \/ OpenReaderCancelled \/ OpenReaderErr \/ OpenReaderResult
    \/ OpenWriterCall \/ OpenWriterCancelled \/ OpenWriterErr \/ OpenWriterResult
    \/ OpenAppenderCall \/ OpenAppenderCancelled \/ OpenAppenderErr \/ OpenAppenderResult
    \/ ListEntriesCall \/ ListEntriesCancelled \/ ListEntriesErr \/ ListEntriesResult
    \/ RemoveCall \/ RemoveCancelled \/ RemoveResult

Spec == Init /\ [][Next]_vars

\* The scheduler runs a goroutine that can run: a caller whose select has a
\* ready case, or whose receive has a value waiting, proceeds.  Nothing is
\* assumed of the workers: an OS call may never return.
CallerReturn ==
    \/ ReadCancelled \/ ReadResult
    \/ WriteCancelled \/ WriteResult \/ WriteRecvLen
    \/ CloseCancelled \/ CloseResult
    \/ OpenReaderCancelled \/ OpenReaderErr \/ OpenReaderResult
    \/ OpenWriterCancelled \/ OpenWriterErr \/ OpenWriterResult
    \/ OpenAppenderCancelled \/ OpenAppenderErr \/ OpenAppenderResult
    \/ ListEntriesCancelled \/ ListEntriesErr \/ ListEntriesResult
    \/ RemoveCancelled \/ RemoveResult

FairSpec == Init /\ [][Next]_vars /\ WF_vars(CallerReturn)

\* ------------------------------------------------------- bridge properties
BridgedOps == {"Read", "Write", "Close", "OpenReader", "OpenWriter", "OpenAppender",
               "ListEntries", "Remove"}
OpenOps == {"OpenReader", "OpenWriter", "OpenAppender"}
\* The worker of the most recent bridged call.
LastWorker == workers[Len(workers)]

\* C1: a bridged call that has returned returned either the cancellation error,
\* and then its signal had fired, together with zero values; or exactly what its
\* OS call produced (count, handle, names, bytes, error).  An open never returns
\* a nil handle together with a nil error.
C1_OutcomeIsResultOrCancellation ==
    (ret.op \in BridgedOps /\ ret.state = "returned") =>
        /\ IF ret.err = "ctx"
           THEN ctxDone /\ ret.n = 0 /\ ret.hd = 0 /\ ret.names = {}
           ELSE /\ LastWorker.stage = "done"
                /\ ret.err = LastWorker.res.err
                /\ ret.n = LastWorker.res.n
                /\ ret.hd = LastWorker.res.hd
                /\ ret.names = LastWorker.res.names
                /\ (ret.op = "Read" /\ ret.err = "nil") => p = LastWorker.res.Data
        /\ ret.op \in OpenOps => ~(ret.hd = 0 /\ ret.err = "nil")

\* A Read that returned the cancellation error although its OS read had already
\* delivered bytes: the signal won the race.
C1_Witness ==
    /\ ret.op = "Read" /\ ret.state = "returned" /\ ret.err = "ctx"
    /\ LastWorker.stage = "done" /\ LastWorker.res.err = "nil" /\ LastWorker.res.n > 0

\* C2: once the caller's signal has fired, the call it is in returns, whatever
\* the worker does; a Write that has taken the error finds the length waiting.
C2_ReturnsAfterSignal == (cur.pc # "idle" /\ ctxDone) ~> (cur.pc = "idle")

\* A Write that has taken the error and is at its second receive, signal fired.
C2_Witness == cur.op = "Write" /\ cur.pc = "recvLen" /\ ctxDone

\* C3: after a Read returned the cancellation error the caller's buffer holds
\* what it held when Read was called, also once the background read is done.
C3_CancelledReadKeepsBuffer == lastRead = "cancelled" => p = pAtCall

\* A cancelled Read whose background OS read has since delivered bytes.
C3_Witness ==
    /\ lastRead = "cancelled"
    /\ \E i \in 1..Len(workers) :
        /\ workers[i].op = "Read" /\ workers[i].stage = "done"
        /\ workers[i].res.n > 0 /\ workers[i].res.Data # pAtCall

\* C9: whatever whence is, a Seek to offset leaves the handle at absolute
\* offset `offset` and returns it.
C9_SeekIgnoresWhence ==
    ret.op = "Seek" => ret.err = "nil" /\ ret.after = ret.arg /\ ret.n = ret.arg

\* Seek(2, from-current) after reading one byte from offset 0 lands at 2, not 3.
C9_Witness ==
    /\ ret.op = "Seek" /\ ret.whence = "SeekCurrent"
    /\ lastRead = "returned" /\ ret.before = 1
    /\ ret.arg = 2 /\ ret.after = 2

\* The channel the worker wk sends on next: a worker past its OS call sends the
\* result on rchan, the length on lench, or the error on errch.
SendsOn(wk) ==
    IF wk.stage = "send2" THEN wk.errch
    ELSE IF wk.op = "Read" THEN wk.rchan
    ELSE IF wk.op = "Write" THEN wk.lench
    ELSE IF wk.op \in {"Close", "Remove"} THEN wk.errch
    ELSE IF wk.res.err # "nil" THEN wk.errch ELSE wk.rchan

\* C11: no worker ever blocks on a send.  A worker whose OS call has returned
\* and which has not returned itself finds room in the channel it sends on next
\* (no channel ever holds more than its capacity of one value), whether its
\* caller still waits or has returned; so its remaining steps are always enabled
\* and it terminates.
C11_WorkersNeverBlock ==
    \A i \in 1..Len(workers) :
        /\ workers[i].stage \in {"send", "send2"} => Len(SendsOn(workers[i])) < ChanCap
        /\ Len(workers[i].rchan) <= ChanCap
        /\ Len(workers[i].errch) <= ChanCap
        /\ Len(workers[i].lench) <= ChanCap

\* The worker of a Write whose caller has returned with the cancellation error:
\* the length is in lench, unread for ever, and the error is still to be sent.
C11_Witness ==
    /\ cur.pc = "idle" /\ ret.op = "Write" /\ ret.err = "ctx"
    /\ LastWorker.stage = "send2" /\ LastWorker.lench # <<>>


\* C12: the bytes the worker of a Write has handed to the OS are the bytes the
\* caller's buffer held when Write was called (the copy nb made then), whatever
\* the caller has done to its buffer since.
C12_WriteUsesBytesAtCall ==
    \A i \in 1..Len(workers) :
        (workers[i].op = "Write" /\ workers[i].stage \in {"send", "send2", "done"})
            => workers[i].res.Data = workers[i].b

\* A Write returned the cancellation error, the caller overwrote its buffer, and
\* the worker then wrote the bytes of the call to the file.
C12_Witness ==
    /\ ret.op = "Write" /\ ret.err = "ctx"
    /\ LastWorker.stage = "done" /\ LastWorker.res.err = "nil"
    /\ wb # LastWorker.b /\ LastWorker.res.Data = LastWorker.b
    /\ \E q \in Paths : fs[q] = FileNode(LastWorker.b)

\* The bridged methods of a ContextRespectingIoFile.
HandleOps == {"Read", "Write", "Close"}

\* C19: with a caller that starts a call on its handle only after the previous
\* one returned, no call is started on a handle while the OS call of an earlier
\* call on it is still outstanding: no two OS calls on one file are in flight
\* together, and none runs before an earlier one.
C19_OneCallInFlight ==
    \A i, j \in 1..Len(workers) :
        (/\ i < j
         /\ workers[i].op \in HandleOps /\ workers[j].op \in HandleOps
         /\ workers[i].hd = workers[j].hd)
        => workers[i].stage # "os"

\* C20: a Read that returned the cancellation error has consumed nothing: once
\* its background call has finished, it has read no bytes, so the offset of the
\* handle is where it was before the Read.
C20_CancelledReadConsumesNothing ==
    (/\ ret.op = "Read" /\ ret.state = "returned" /\ ret.err = "ctx"
     /\ LastWorker.stage \in {"send", "done"})
    => LastWorker.res.n = 0

\* ------------------------------------------------------ scripted caller
\* The caller writes data to path and reads it back, with signals that never
\* fire: open for write or for append, Write(data), Close, OpenReader,
\* Read(len(data)).
ScriptData == UNION {[1..n -> Byte] : n \in 1..MaxLen}

ScriptInit ==
    /\ BridgeInit
    /\ handles = <<>>
    /\ h = 0
    /\ \E path \in {"/f", "/d/a"}, data \in ScriptData, open \in {"OpenWriter", "OpenAppender"} :
        /\ fs \in InitFS(path)
        /\ script = [mode |-> "scripted", path |-> path, data |-> data,
                     steps |-> <<open, "Write", "Close", "OpenReader", "Read">>,
                     open |-> open, fs0 |-> fs]

ScriptWorkerStep ==
    \E i \in 1..Len(workers) :
        \/ asyncRead(i)
        \/ asyncWrite(i)
        \/ asyncClose(i)
        \/ asyncOpenRead(i)
        \/ asyncOpenWrite(i)

ScriptNext ==
    \/ ScriptWorkerStep
    \/ OpenWriterCall \/ OpenWriterErr \/ OpenWriterResult
    \/ OpenAppenderCall \/ OpenAppenderErr \/ OpenAppenderResult
    \/ WriteCall \/ WriteResult \/ WriteRecvLen
    \/ CloseCall \/ CloseResult
    \/ OpenReaderCall \/ OpenReaderResult
    \/ ReadCall \/ ReadResult

ScriptSpec == ScriptInit /\ [][ScriptNext]_vars

\* The scripted caller has got back from the call named op.
Back(op) == cur.pc = "idle" /\ ret.op = op /\ ret.state = "returned"
\* The target can be opened for writing: it is no directory and its parent is
\* no regular file.
Writable(f, path) ==
    /\ f[path].kind # "dir"
    /\ Parent(path) # Root => f[Parent(path)].kind # "file"

\* C4: OpenWriter(path), Write(data), Close, OpenReader(path), Read into
\* len(data) bytes gives back exactly data, whatever the file held before.  The
\* script gets that far whenever the target can be opened for writing.
C4_RoundTrip ==
    script.open = "OpenWriter" =>
        /\ Back("Read") => ret.err = "nil" /\ ret.n = Len(script.data) /\ p = script.data
        /\ (cur.pc = "idle" /\ ret.err # "nil") =>
               ret.op = "OpenWriter" /\ ~Writable(script.fs0, script.path)

\* The round trip of bytes that start with NUL, over a longer old file.
C4_Witness ==
    /\ script.open = "OpenWriter" /\ Back("Read")
    /\ script.data[1] = 0
    /\ script.fs0[script.path] = FileNode(<<9, 9, 9>>)
    /\ p = script.data

Watcher(target) ==
    [pc |-> "new", target |-> target, path |-> target, local |-> target,
     wpath |-> target, isDir |-> FALSE, ctxDone |-> FALSE,
     osw |-> "none", registered |-> FALSE, added |-> FALSE, dirOpen |-> FALSE,
     names |-> {}, todo |-> {}, cbs |-> <<>>, events |-> <<>>,
     loop |-> "none", errs |-> 0, shutdown |-> FALSE, hb |-> FALSE, sd |-> "none",
     afterFlag |-> 0, nenv |-> 0, removed |-> {}, recreated |-> {}]

wvars == <<handles, workers, cur, ctxDone, h, p, pAtCall, lastRead, ret, ncalls, script, wb>>

\* (*url.URL).Parse(ref) for a file name: "%" is no valid escape.
ParseOK(name) == name # "%"
Child(dir, name) == CHOOSE q \in Paths : Parent(q) = dir /\ BaseName(q) = name

\* os.Stat(path): follows symbolic links, so the mode it reports is never
\* os.ModeSymlink and the resolution loop of NewFileWatcher is not entered.
osStat(f, path) ==
    LET q == Resolve(f, path) IN
    IF f[q].kind = "absent" THEN [err |-> "ENOENT", isDir |-> FALSE, symlink |-> FALSE]
    ELSE [err |-> "nil", isDir |-> f[q].kind = "dir", symlink |-> FALSE]

\* A ReadCloser handed to the callback: nil, or a handle opened on a file when
\* it held data.
NilReader == [nil |-> TRUE, data |-> <<>>]
Reader(data) == [nil |-> FALSE, data |-> data]

\* What globalFileAdapter.OpenReader(ctx, url) may return: the result of os.Open,
\* or the cancellation error once ctx has fired.
OpenReaderOutcomes(f, path, done) ==
    LET r == osOpen(f, path) IN
    {[err |-> r.err,
      reader |-> IF r.err = "nil" THEN Reader(f[Resolve(f, path)].data) ELSE NilReader]}
    \cup IF done THEN {[err |-> "ctx", reader |-> NilReader]} ELSE {}

\* One invocation of the callback: by the initial scan (init) or for an event
\* (live; early: the event arrived while the scan was still running).
Callback(phase, subject, reader) ==
    [phase |-> phase, subject |-> subject, reader |-> reader, early |-> FALSE]

\* The ctx handed to NewFileWatcher fires while the setup runs.
WatchCtxFire ==
    /\ fw.pc \in {"add", "opendir", "children", "openfile"}
    /\ ~fw.ctxDone
    /\ fw' = [fw EXCEPT !.ctxDone = TRUE]
    /\ UNCHANGED <<fs, wvars>>

\* NewFileWatcher: fsnotify.NewWatcher()
NewWatcher ==
    /\ fw.pc = "new"
    /\ \/ fw' = [fw EXCEPT !.pc = "stat", !.osw = "open", !.path = fw.target,
                            !.local = fw.target]
       \/ fw' = [fw EXCEPT !.pc = "failed"]
    /\ UNCHANGED <<fs, wvars>>

\* NewFileWatcher: os.Stat and one test of the loop that resolves symbolic
\* links: a link makes the local path the link's target (f.path stays) and is
\* followed by another os.Stat.
StatTarget ==
    /\ fw.pc = "stat"
    /\ LET fi == osStat(fs, fw.local) IN
        fw' = IF fi.err # "nil" THEN [fw EXCEPT !.pc = "failed"]
              ELSE IF fi.symlink THEN [fw EXCEPT !.local = LinkTarget]
              ELSE [fw EXCEPT !.pc = "add", !.isDir = fi.isDir]
    /\ UNCHANGED <<fs, wvars>>

\* NewFileWatcher with the scan begun before the watch is registered.
StartWatching_late ==
    /\ fw.pc = "add"
    /\ fw' = [fw EXCEPT !.pc = IF fw.isDir THEN "opendir" ELSE "openfile"]
    /\ UNCHANGED <<fs, wvars>>

\* NewFileWatcher: watcher.Add(path.Path)
StartWatching ==
    /\ fw.pc = "add"
    /\ fw' = IF fs[Resolve(fs, fw.local)].kind = "absent" THEN [fw EXCEPT !.pc = "failed"]
             ELSE [fw EXCEPT !.pc = IF fw.isDir THEN "opendir" ELSE "openfile",
                             !.registered = TRUE, !.added = TRUE, !.wpath = fw.local]
    /\ UNCHANGED <<fs, wvars>>

\* NewFileWatcher, directory: os.Open(path.Path) and f.Readdirnames(-1)
ScanEnumerate ==
    /\ fw.pc = "opendir"
    /\ LET r == osReaddirnames(fs, fw.local) IN
        fw' = IF r.err # "nil" THEN [fw EXCEPT !.pc = "failed"]
              ELSE [fw EXCEPT !.pc = "children", !.dirOpen = TRUE,
                              !.names = r.names, !.todo = r.names]
    /\ UNCHANGED <<fs, wvars>>

\* The scan invoking the callback twice for a child.
ScanChild_twice ==
    /\ fw.pc = "children"
    /\ \E name \in fw.todo :
        IF ~ParseOK(name) THEN fw' = [fw EXCEPT !.pc = "failed"]
        ELSE \E o \in OpenReaderOutcomes(fs, Child(fw.local, name), fw.ctxDone) :
              LET cb == Callback("init", Child(fw.local, name), o.reader) IN
              fw' = [fw EXCEPT !.cbs = Append(Append(@, cb), cb), !.todo = @ \ {name}]
    /\ UNCHANGED <<fs, wvars>>

\* NewFileWatcher, directory: one turn of `for _, name = range names`
ScanChild ==
    /\ fw.pc = "children"
    /\ \E name \in fw.todo :
        IF ~ParseOK(name) THEN fw' = [fw EXCEPT !.pc = "failed"]
        ELSE \E o \in OpenReaderOutcomes(fs, Child(fw.local, name), fw.ctxDone) :
              fw' = [fw EXCEPT !.cbs = Append(@, Callback("init", Child(fw.local, name), o.reader)),
                               !.todo = @ \ {name}]
    /\ UNCHANGED <<fs, wvars>>

\* NewFileWatcher, directory: f.Close() after the last child
ScanClose ==
    /\ fw.pc = "children" /\ fw.todo = {}
    /\ fw' = [fw EXCEPT !.pc = "go", !.dirOpen = FALSE]
    /\ UNCHANGED <<fs, wvars>>

\* NewFileWatcher, single file: OpenReader and the callback
ScanFile ==
    /\ fw.pc = "openfile"
    /\ \E o \in OpenReaderOutcomes(fs, fw.local, fw.ctxDone) :
        fw' = IF o.err # "nil" THEN [fw EXCEPT !.pc = "failed"]
              ELSE [fw EXCEPT !.pc = "go",
                              !.cbs = Append(@, Callback("init", fw.local, o.reader))]
    /\ UNCHANGED <<fs, wvars>>

\* NewFileWatcher: go ret.watchForChanges(); return ret, nil
StartLoop ==
    /\ fw.pc = "go"
    /\ fw' = [fw EXCEPT !.pc = "returned", !.loop = "check"]
    /\ UNCHANGED <<fs, wvars>>

\* The events the processing loop acts on.
Accepted == {"Write", "Remove", "Rename"}
Event(op, name, early) == [op |-> op, name |-> name, early |-> early]

\* watchForChanges: `for !f.shutdown`.  Shutdown writes the flag without any
\* synchronisation, so until that write happens-before the read (the loop has
\* received from the channel Shutdown closed) the read may still see false.
LoopCheck ==
    /\ fw.loop = "check"
    /\ \/ /\ ~fw.shutdown \/ ~fw.hb
          /\ fw' = [fw EXCEPT !.loop = "recv"]
       \/ /\ fw.shutdown
          /\ fw' = [fw EXCEPT !.loop = "exit"]
    /\ UNCHANGED <<fs, wvars>>

\* The loop dispatching the callback, with a nil handle, also when the open failed.
LoopEvent_nilcb ==
    /\ fw.loop = "recv"
    /\ fw.events # <<>>
    /\ LET event == Head(fw.events)
           got == [fw EXCEPT !.events = Tail(@),
                             !.afterFlag = IF fw.shutdown THEN @ + 1 ELSE @]
       IN  IF event.op \notin Accepted THEN fw' = [got EXCEPT !.loop = "check"]
           ELSE IF ~ParseOK(BaseName(event.name)) THEN fw' = [got EXCEPT !.loop = "sendErr"]
           ELSE \E o \in OpenReaderOutcomes(fs, event.name, FALSE) :
                 fw' = IF o.err = "nil"
                       THEN [got EXCEPT !.loop = "check",
                                        !.cbs = Append(@, [Callback("live", event.name, o.reader)
                                                         EXCEPT !.early = event.early])]
                       ELSE [got EXCEPT !.loop = "check",
                                        !.cbs = Append(@, Callback("live", event.name, NilReader))]
    /\ UNCHANGED <<fs, wvars>>

\* watchForChanges: `event = <-f.watcher.Events` and the body of the loop for
\* it: the filter, f.path.Parse, OpenReader under the background context, and
\* `go f.cb(subject, reader)` or the error for the error channel.
LoopEvent ==
    /\ fw.loop = "recv"
    /\ fw.events # <<>>
    /\ LET event == Head(fw.events)
           got == [fw EXCEPT !.events = Tail(@),
                             !.afterFlag = IF fw.shutdown THEN @ + 1 ELSE @]
       IN  IF event.op \notin Accepted THEN fw' = [got EXCEPT !.loop = "check"]
           ELSE IF ~ParseOK(BaseName(event.name)) THEN fw' = [got EXCEPT !.loop = "sendErr"]
           ELSE \E o \in OpenReaderOutcomes(fs, event.name, FALSE) :
                 fw' = IF o.err = "nil"
                       THEN [got EXCEPT !.loop = "check",
                                        !.cbs = Append(@, [Callback("live", event.name, o.reader)
                                                         EXCEPT !.early = event.early])]
                       ELSE [got EXCEPT !.loop = "sendErr"]
    /\ UNCHANGED <<fs, wvars>>

\* watchForChanges: the receive from f.watcher.Events once Close has closed it
\* yields the zero Event, which the filter drops.
LoopClosed ==
    /\ fw.loop = "recv"
    /\ fw.events = <<>> /\ fw.osw = "closed"
    /\ fw' = [fw EXCEPT !.loop = "check", !.hb = TRUE]
    /\ UNCHANGED <<fs, wvars>>

\* watchForChanges: `f.watcher.Errors <- err` on the unbuffered error channel:
\* it completes when the host receives, and panics once Close has closed it.
LoopSendErr ==
    /\ fw.loop = "sendErr"
    /\ \/ /\ fw.osw = "open"
          /\ fw' = [fw EXCEPT !.loop = "check", !.errs = @ + 1]
       \/ /\ fw.osw = "closed"
          /\ fw' = [fw EXCEPT !.loop = "panic"]
    /\ UNCHANGED <<fs, wvars>>

\* Shutdown: f.shutdown = true
ShutdownFlag ==
    /\ fw.pc = "returned" /\ fw.sd = "none"
    /\ fw' = [fw EXCEPT !.sd = "flag", !.shutdown = TRUE]
    /\ UNCHANGED <<fs, wvars>>

\* Shutdown: f.watcher.Remove(f.path.Path); an error is returned at once
ShutdownRemove ==
    /\ fw.sd = "flag"
    /\ fw' = IF fw.registered /\ fw.path = fw.wpath
             THEN [fw EXCEPT !.sd = "removed", !.registered = FALSE]
             ELSE [fw EXCEPT !.sd = "failed"]
    /\ UNCHANGED <<fs, wvars>>

\* Shutdown: return f.watcher.Close(), which closes Events and Errors
ShutdownClose ==
    /\ fw.sd = "removed"
    /\ fw' = [fw EXCEPT !.sd = "returned", !.osw = "closed", !.events = <<>>]
    /\ UNCHANGED <<fs, wvars>>

\* ---------------------------------------------- the watched file system
\* Other programs change files while the watcher is set up and runs.  The OS
\* reports a change of the watched file, or of a file in the watched directory,
\* while the watch is registered; the n-th mutation writes the bytes <<n>>.
Watched(q) ==
    /\ fw.registered /\ fw.osw = "open"
    /\ q = Resolve(fs, fw.wpath) \/ Parent(q) = fw.wpath
\* The name an event on the file at q carries: the registered path for the
\* watched file itself, the path below the registered directory for its files.
EventName(q) == IF Parent(q) = fw.wpath THEN q ELSE fw.wpath
Report(op, q) ==
    IF Watched(q) THEN Append(fw.events, Event(op, EventName(q), fw.pc # "returned"))
    ELSE fw.events
Subjects ==
    IF fw.isDir THEN {q \in Paths : Parent(q) = fw.local} ELSE {Resolve(fs, fw.local)}
MayMutate == fw.pc \notin {"off", "new", "stat", "failed"} /\ fw.nenv < MaxEnv

EnvWrite ==
    /\ MayMutate
    /\ \E q \in Subjects :
        /\ fs[q].kind = "file"
        /\ fs' = [fs EXCEPT ![q] = FileNode(<<fw.nenv + 1>>)]
        /\ fw' = [fw EXCEPT !.nenv = @ + 1, !.events = Report("Write", q)]
    /\ UNCHANGED wvars

\* Removing the watched file itself also ends the OS watch on it.
EnvRemove ==
    /\ MayMutate
    /\ \E q \in Subjects :
        /\ fs[q].kind = "file"
        /\ fs' = [fs EXCEPT ![q] = Absent]
        /\ fw' = [fw EXCEPT !.nenv = @ + 1, !.events = Report("Remove", q),
                            !.removed = IF Watched(q) THEN @ \cup {EventName(q)} ELSE @,
                            !.recreated = @ \ {EventName(q)},
                            !.registered = IF q = Resolve(fs, fw.wpath) THEN FALSE ELSE @]
    /\ UNCHANGED wvars

EnvCreate ==
    /\ MayMutate
    /\ \E q \in Subjects :
        /\ fs[q].kind = "absent"
        /\ fs' = [fs EXCEPT ![q] = FileNode(<<fw.nenv + 1>>)]
        /\ fw' = [fw EXCEPT !.nenv = @ + 1, !.events = Report("Create", q),
                            !.recreated = IF EventName(q) \in fw.removed
                                          THEN @ \cup {EventName(q)} ELSE @]
    /\ UNCHANGED wvars

\* --------------------------------------------------- watch specification
\* A watch is asked for on the file /f, on the link /l to it, or on the
\* directory /d with any of its files present.
WatchFS ==
    LET none == [q \in Paths |-> Absent]
        old == FileNode(<<9, 9, 9>>)
    IN  {none, [none EXCEPT !["/f"] = old], [none EXCEPT !["/f"] = old, !["/l"] = LinkNode]}
        \cup {[q \in Paths |-> IF q = "/d" THEN DirNode ELSE IF q \in S THEN old ELSE Absent] :
                 S \in SUBSET {"/d/a", "/d/b", "/d/%"}}

WatchInit ==
    /\ workers = <<>> /\ cur = Idle /\ ctxDone = FALSE /\ p = <<>> /\ pAtCall = <<>>
    /\ lastRead = "none" /\ ret = NoRet /\ ncalls = 0 /\ wb = <<>>
    /\ handles = <<>> /\ h = 0
    /\ script = [mode |-> "free", path |-> "/f", data |-> <<>>, steps |-> <<>>,
                 open |-> "none", fs0 |-> [q \in Paths |-> Absent]]
    /\ fs \in WatchFS
    /\ \E target \in {"/f", "/d", "/l"} :
        /\ fs["/f"].kind = "absent" \/ target \in {"/f", "/l"}
        /\ fs["/l"].kind = "link" <=> target = "/l"
        /\ fw = Watcher(target)

WatchNext ==
    \/ WatchCtxFire
    \/ NewWatcher \/ StatTarget \/ StartWatching
    \/ ScanEnumerate \/ ScanChild \/ ScanClose \/ ScanFile \/ StartLoop
    \/ LoopCheck \/ LoopEvent \/ LoopClosed \/ LoopSendErr
    \/ ShutdownFlag \/ ShutdownRemove \/ ShutdownClose
    \/ EnvWrite \/ EnvRemove \/ EnvCreate

WatchSpec == WatchInit /\ [][WatchNext]_vars

\* The scheduler runs the goroutines of the program that can run: the loop
\* (a send on the error channel completes only when the host receives, which
\* nothing obliges it to do, or fails once the channel is closed) and Shutdown
\* once invoked.  Nothing is assumed of the host or of other programs.
LoopRun ==
    \/ LoopCheck \/ LoopEvent \/ LoopClosed
    \/ LoopSendErr /\ fw.osw = "closed"
ShutdownRun == ShutdownRemove \/ ShutdownClose
WatchFairSpec == WatchInit /\ [][WatchNext]_vars /\ WF_vars(LoopRun) /\ WF_vars(ShutdownRun)

\* ------------------------------------------------------ watch properties
CbIndex == 1..Len(fw.cbs)
InitCbs(q) == {i \in CbIndex : fw.cbs[i].phase = "init" /\ fw.cbs[i].subject = q}
LiveCbs == {i \in CbIndex : fw.cbs[i].phase = "live"}

\* C5: whenever NewFileWatcher has reached the scan (it is at or past the open
\* of the directory or of the file, holds the directory open, has enumerated, or
\* has invoked the callback), watcher.Add on the target has already succeeded.
C5_WatchBeforeScan ==
    (\/ fw.pc \in {"opendir", "children", "openfile", "go", "returned"}
     \/ fw.dirOpen \/ fw.names # {} \/ fw.cbs # <<>>) => fw.added

\* The scan of a directory in progress, a child reported, the watch in place.
C5_Witness ==
    /\ fw.pc = "children" /\ fw.todo # {} /\ fw.cbs # <<>>
    /\ fw.added /\ fw.registered

\* C6: once NewFileWatcher has returned a watcher, the scan has invoked the
\* callback exactly once for each name Readdirnames returned and for nothing
\* else (exactly once, for the target, when it is a single file); and no
\* callback for an event ever precedes one of the scan, also for events that
\* arrived during the scan.
C6_InitialCallbacks ==
    /\ fw.pc = "returned" =>
        /\ \A q \in Paths :
            Cardinality(InitCbs(q)) =
                IF fw.isDir THEN (IF Parent(q) = fw.local /\ BaseName(q) \in fw.names
                                  THEN 1 ELSE 0)
                ELSE (IF q = fw.local THEN 1 ELSE 0)
    /\ LiveCbs # {} => fw.pc = "returned"
    /\ \A i \in LiveCbs : \A j \in CbIndex : fw.cbs[j].phase = "init" => j < i

\* A directory of two files: two callbacks of the scan, then the callback for
\* an event that arrived while the scan was running.
C6_Witness ==
    /\ fw.pc = "returned" /\ fw.isDir /\ Cardinality(fw.names) = 2
    /\ Len(fw.cbs) = 3
    /\ fw.cbs[3].phase = "live" /\ fw.cbs[3].early

\* C7: once Shutdown has returned no event is pending or generated any more,
\* and the loop handles at most one event after the shutdown flag was set.
C7_AtMostOneAfterShutdown ==
    /\ fw.sd = "returned" => fw.events = <<>>
    /\ fw.afterFlag <= 1

\* C8: a file that was removed while watched and created again under its name,
\* the watch not shut down, has been reported to the callback with a handle on
\* its new content by the time the loop has handled every event and waits for
\* the next.
C8_RecreatedFileNotified ==
    \A q \in fw.recreated :
        (/\ fw.sd = "none" /\ fw.loop = "recv" /\ fw.events = <<>>
         /\ fs[Resolve(fs, q)].kind = "file")
        => \E i \in CbIndex : /\ fw.cbs[i].subject = q
                              /\ fw.cbs[i].reader = Reader(fs[Resolve(fs, q)].data)

\* C13: an error in the loop never ends or stalls it.  The loop never fails on
\* the send of an error (it never panics on a closed error channel); and, Shutdown
\* not invoked, a loop that has an error to report gets past the report and on
\* to the next event, whether or not the host receives from the error channel.
C13_ErrorsNeverStallLoop ==
    /\ [](fw.loop # "panic")
    /\ (fw.loop = "sendErr" /\ fw.sd = "none") ~> (fw.loop # "sendErr" \/ fw.sd # "none")

\* What the loop does with the event at the head of the queue.
C14_Step ==
    (fw.loop = "recv" /\ fw'.loop # "recv" /\ fw.events # <<>>
        /\ Head(fw.events).op \in Accepted) =>
    LET event == Head(fw.events)
        opened == ParseOK(BaseName(event.name)) /\ osOpen(fs, event.name).err = "nil"
    IN  IF opened
        THEN /\ Len(fw'.cbs) = Len(fw.cbs) + 1
             /\ SubSeq(fw'.cbs, 1, Len(fw.cbs)) = fw.cbs
             /\ LET cb == fw'.cbs[Len(fw'.cbs)] IN
                 /\ cb.phase = "live" /\ cb.subject = event.name
                 /\ ~cb.reader.nil
             /\ fw'.loop = "check" /\ fw'.errs = fw.errs
             /\ fw'.events = Tail(fw.events)
        ELSE /\ fw'.cbs = fw.cbs
             /\ fw'.loop = "sendErr"
             /\ fw'.events = Tail(fw.events)

\* C14: for every accepted event the loop receives, either the open succeeds,
\* the callback is dispatched once with the handle opened and the loop goes on
\* without an error to send; or it fails, no callback is dispatched and the loop
\* goes to send the error.  The loop never dispatches a nil handle.
C14_CallbackOrError == [][C14_Step]_vars

\* The loop has dispatched a callback for one event and reported an error for
\* another.
C14_Witness ==
    /\ fw.pc = "returned" /\ LiveCbs # {} /\ fw.errs > 0
    /\ \A i \in LiveCbs : ~fw.cbs[i].reader.nil

\* C15: every callback of the initial scan carries an opened handle, never a
\* missing one.
C15_ScanNeverPassesNil ==
    \A i \in CbIndex : fw.cbs[i].phase = "init" => ~fw.cbs[i].reader.nil

\* C16: when NewFileWatcher has returned an error, the fsnotify watcher it made
\* is not left open, the directory handle of the scan is closed and no loop runs.
C16_FailedSetupReleases ==
    fw.pc = "failed" => fw.osw # "open" /\ ~fw.dirOpen /\ fw.loop = "none"

\* C17: once Shutdown has returned, with or without an error, the flag is set,
\* the watch is deregistered and the fsnotify watcher is closed; and the loop
\* then ends.
C17_ShutdownReleasesAndStops ==
    /\ [](fw.sd \in {"returned", "failed"} =>
            fw.shutdown /\ ~fw.registered /\ fw.osw = "closed")
    /\ (fw.sd \in {"returned", "failed"}) ~> (fw.loop \in {"exit", "panic"})

\* C18: the path a watcher that NewFileWatcher returned stores (against which
\* the loop resolves event names and which Shutdown deregisters) is free of
\* symbolic links and is the path the OS watch was registered on.
C18_StoredPathIsResolved ==
    fw.pc = "returned" => fs[fw.path].kind # "link" /\ fw.path = fw.wpath

====
